---------------------------- MODULE Spec2Model ----------------------------
(***************************************************************************)
(* A model of let_me_go.py: the reminder loop (LetMeGoApp.reminder_service)*)
(* with the configuration store (ConfigManager), the configuration editor  *)
(* (validate_and_start), the popups and the tray menu that run beside it.  *)
(*                                                                         *)
(* Time is counted in whole seconds from a Monday 00:00:00.  Texts (the    *)
(* "HH:MM" fields of the configuration and the entries of the editor) are  *)
(* sequences of one-character strings, so that parse_time and int() are    *)
(* computed character by character as the code computes them.  A Python    *)
(* None is the empty sequence << >> and a present value v is << v >>.      *)
(***************************************************************************)
EXTENDS Integers, Sequences, FiniteSets, TLC

(***************************************************************************)
(* Units of datetime / timedelta arithmetic.                               *)
(***************************************************************************)
SecondsPerMinute == 60
SecondsPerHour == 3600
SecondsPerDay == 86400
DaysPerWeek == 7
HoursPerDay == 24
MinutesPerHour == 60

None == << >>
Some(v) == << v >>
IsNone(x) == x = << >>
Val(x) == x[1]

Min(a, b) == IF a <= b THEN a ELSE b
Abs(a) == IF a < 0 THEN 0 - a ELSE a

RECURSIVE MinOfSet(_)
MinOfSet(S) ==
    LET x == CHOOSE y \in S : TRUE
    IN  IF S = {x} THEN x ELSE Min(x, MinOfSet(S \ {x}))

(***************************************************************************)
(* datetime: now.date(), now.time(), now.weekday() + 1,                    *)
(* datetime.combine(date, time).                                           *)
(***************************************************************************)
DateOf(now) == now \div SecondsPerDay
TimeOf(now) == now % SecondsPerDay
WeekdayOf(now) == (DateOf(now) % DaysPerWeek) + 1
Combine(date, tod) == date * SecondsPerDay + tod

(***************************************************************************)
(* Texts.  int(text) as Python computes it on the characters the editor    *)
(* and the configuration file can hold here: an optional sign followed by  *)
(* one or more decimal digits; anything else raises ValueError.            *)
(***************************************************************************)
Digits == {"0", "1", "2", "3", "4", "5", "6", "7", "8", "9"}

DigitVal(c) ==
    CASE c = "0" -> 0 [] c = "1" -> 1 [] c = "2" -> 2 [] c = "3" -> 3
      [] c = "4" -> 4 [] c = "5" -> 5 [] c = "6" -> 6 [] c = "7" -> 7
      [] c = "8" -> 8 [] c = "9" -> 9

RECURSIVE DecimalVal(_)
DecimalVal(s) ==
    IF s = << >> THEN 0
    ELSE 10 * DecimalVal(SubSeq(s, 1, Len(s) - 1)) + DigitVal(s[Len(s)])

AllDigits(s) == Len(s) > 0 /\ \A i \in 1..Len(s) : s[i] \in Digits

\* int(s): None when int() raises ValueError, else Some(value)
py_int(s) ==
    IF AllDigits(s) THEN Some(DecimalVal(s))
    ELSE IF Len(s) > 1 /\ s[1] \in {"+", "-"} /\ AllDigits(Tail(s))
         THEN Some(IF s[1] = "-" THEN 0 - DecimalVal(Tail(s))
                                 ELSE DecimalVal(Tail(s)))
         ELSE None

\* s.split(":"): the sequence of the parts between the colons
RECURSIVE py_split(_)
py_split(s) ==
    IF \A i \in 1..Len(s) : s[i] # ":" THEN << s >>
    ELSE LET k == CHOOSE i \in 1..Len(s) :
                      s[i] = ":" /\ \A j \in 1..(i - 1) : s[j] # ":"
         IN  << SubSeq(s, 1, k - 1) >> \o py_split(SubSeq(s, k + 1, Len(s)))

(***************************************************************************)
(* parse_time(time_str): a datetime.time, here its second of the day, or   *)
(* None.  The unpacking into (hour, minute) raises ValueError unless there *)
(* are exactly two parts, int() raises it on a part that is no integer,    *)
(* and datetime.time raises it when hour or minute is out of range.        *)
(***************************************************************************)
parse_time(time_str) ==
    LET parts == py_split(time_str)
    IN  IF Len(parts) # 2 THEN None
        ELSE LET hour == py_int(parts[1])
                 minute == py_int(parts[2])
             IN  IF IsNone(hour) \/ IsNone(minute) THEN None
                 ELSE IF Val(hour) \in 0..(HoursPerDay - 1)
                         /\ Val(minute) \in 0..(MinutesPerHour - 1)
                      THEN Some(Val(hour) * SecondsPerHour
                                + Val(minute) * SecondsPerMinute)
                      ELSE None

\* time_in_range with "and" in the branch for a range that crosses midnight
time_in_range_no_wrap(start_time, end_time, current_time) ==
    IF start_time <= end_time
    THEN start_time <= current_time /\ current_time <= end_time
    ELSE current_time >= start_time /\ current_time <= end_time

(***************************************************************************)
(* time_in_range(start_time, end_time, current_time)                       *)
(***************************************************************************)
time_in_range(start_time, end_time, current_time) ==
    IF start_time <= end_time
    THEN start_time <= current_time /\ current_time <= end_time
    ELSE \* the range crosses midnight
         current_time >= start_time \/ current_time <= end_time

(***************************************************************************)
(* The texts of the model.                                                 *)
(***************************************************************************)
Blank == << >>
T0900 == << "0", "9", ":", "0", "0" >>
T1200 == << "1", "2", ":", "0", "0" >>
T1230 == << "1", "2", ":", "3", "0" >>
T1300 == << "1", "3", ":", "0", "0" >>
T1330 == << "1", "3", ":", "3", "0" >>
T1800 == << "1", "8", ":", "0", "0" >>
T2200 == << "2", "2", ":", "0", "0" >>
T0600 == << "0", "6", ":", "0", "0" >>
T2500 == << "2", "5", ":", "0", "0" >>
T9x == << "9", "x" >>
N1 == << "1" >>
N60 == << "6", "0" >>
N0 == << "0" >>
NMinus5 == << "-", "5" >>
NX == << "x" >>
\* the None that period.get("start") returns for a key that is absent or null:
\* None.split raises AttributeError, as here the one part fails the unpacking
NoText == << "None" >>

Period(s, e) == [start |-> s, end |-> e]

(***************************************************************************)
(* ConfigManager.  self.default_config; a dict is a function of its keys.  *)
(***************************************************************************)
default_config ==
    [work_periods |-> << Period(T0900, T1800) >>,
     block_periods |-> << Period(T1200, T1330) >>,
     interval_minutes |-> 60,
     auto_start |-> FALSE,
     workdays |-> {1, 2, 3, 4, 5},
     off_work_time |-> T1800,
     off_work_reminder_enabled |-> TRUE]

\* dict.get(key, default)
Get(d, key, dflt) == IF key \in DOMAIN d THEN d[key] ELSE dflt

(***************************************************************************)
(* The configuration file is absent, holds a complete JSON document, or is *)
(* "partial": opened for writing (truncated) and not yet completely        *)
(* written, which json.load rejects.  json.dump writes strings, integers,  *)
(* booleans and lists of them, and json.load reads each back as the value  *)
(* written, so a complete document is the dict that was dumped; what       *)
(* load_config does to the document after json.load is modelled below.     *)
(***************************************************************************)
FileAbsent == [kind |-> "absent"]
FilePartial == [kind |-> "partial"]
FileJson(doc) == [kind |-> "json", doc |-> doc]

\* the conversion of the old single-period format
legacy_convert(doc) ==
    [work_periods |-> << Period(Get(doc, "start_time", T0900),
                                Get(doc, "end_time", T1800)) >>,
     block_periods |-> << Period(Get(doc, "block_start", T1200),
                                 Get(doc, "block_end", T1330)) >>,
     interval_minutes |-> Get(doc, "interval_minutes", 60),
     auto_start |-> Get(doc, "auto_start", FALSE)]

\* for key in self.default_config: if key not in config: config[key] = default
merge_defaults(doc) ==
    [k \in DOMAIN doc \cup DOMAIN default_config |->
        IF k \in DOMAIN doc THEN doc[k] ELSE default_config[k]]

\* if not config.get(key): config[key] = self.default_config[key]
default_if_empty(doc, key) ==
    IF Get(doc, key, << >>) = << >>
    THEN [k \in DOMAIN doc \cup {key} |->
             IF k = key THEN default_config[key] ELSE doc[k]]
    ELSE doc

load_config(file) ==
    IF file.kind = "json"
    THEN LET doc == file.doc
             converted ==
                 IF "start_time" \in DOMAIN doc /\ "work_periods" \notin DOMAIN doc
                 THEN legacy_convert(doc)
                 ELSE doc
             merged == merge_defaults(converted)
         IN  default_if_empty(default_if_empty(merged, "work_periods"),
                              "block_periods")
    ELSE \* no file, or json.load raised: the defaults
         default_config

\* save_config(config): the file once json.dump has written it
save_config(config) == FileJson(config)

(***************************************************************************)
(* The configuration editor: validate_and_start up to "保存配置".  A form  *)
(* holds the stripped texts of the entries and the values of the check     *)
(* boxes.  A row with a blank start or end is skipped; parse_time(t) is    *)
(* false in "not parse_time(t)" exactly when it is None (a datetime.time   *)
(* is always true, midnight included).                                     *)
(***************************************************************************)
RowFilled(row) == row.start # Blank /\ row.end # Blank
RowParses(row) == ~IsNone(parse_time(row.start)) /\ ~IsNone(parse_time(row.end))

FilledRows(rows) == SelectSeq(rows, RowFilled)
RowsError(rows) == \E i \in 1..Len(rows) : RowFilled(rows[i]) /\ ~RowParses(rows[i])

\* int(interval_entry.get().strip()) with "if interval <= 0: raise ValueError"
IntervalError(text) ==
    IF IsNone(py_int(text)) THEN TRUE ELSE Val(py_int(text)) <= 0

OffWorkError(text) == text # Blank /\ IsNone(parse_time(text))

\* validation_fails without the checks of the block periods
validation_fails_skipping_blocks(form) ==
    \/ RowsError(form.work)
    \/ FilledRows(form.work) = << >>
    \/ IntervalError(form.interval)
    \/ form.workdays = {}
    \/ OffWorkError(form.off_work_time)

\* one of the messagebox.showerror(...); return paths is taken
validation_fails(form) ==
    \/ RowsError(form.work)
    \/ FilledRows(form.work) = << >>
    \/ RowsError(form.block)
    \/ IntervalError(form.interval)
    \/ form.workdays = {}
    \/ OffWorkError(form.off_work_time)

\* the dict assigned to self.config when every check passes
validated_config(form) ==
    [work_periods |-> FilledRows(form.work),
     block_periods |-> FilledRows(form.block),
     interval_minutes |-> Val(py_int(form.interval)),
     auto_start |-> form.auto_start,
     workdays |-> form.workdays,
     off_work_time |-> IF form.off_work_time # Blank THEN form.off_work_time
                                                     ELSE T1800,
     off_work_reminder_enabled |-> form.off_work_reminder]

(***************************************************************************)
(* reminder_service: the decisions of one pass of the loop, as functions   *)
(* of the configuration the pass loaded and of now.                        *)
(***************************************************************************)
OffWorkLeadMinutes == 10
OffWorkToleranceSeconds == 30
MaxDaysAhead == 7

is_workday(cfg, now) == WeekdayOf(now) \in cfg.workdays

\* the for ... break loops over work_periods and block_periods
RECURSIVE any_period_matches(_, _)
any_period_matches(periods, current_time) ==
    IF periods = << >> THEN FALSE
    ELSE LET start_time == parse_time(Head(periods).start)
             end_time == parse_time(Head(periods).end)
         IN  IF /\ ~IsNone(start_time)
                /\ ~IsNone(end_time)
                /\ time_in_range(Val(start_time), Val(end_time), current_time)
             THEN TRUE
             ELSE any_period_matches(Tail(periods), current_time)

in_work_period(cfg, now) ==
    is_workday(cfg, now) /\ any_period_matches(cfg.work_periods, TimeOf(now))

in_block_period(cfg, now) ==
    any_period_matches(cfg.block_periods, TimeOf(now))

\* the conditions under which the off-work popup is considered at all
off_work_due(cfg, now) ==
    /\ is_workday(cfg, now)
    /\ cfg.off_work_reminder_enabled
    /\ cfg.off_work_time # Blank
    /\ LET off_work_time == parse_time(cfg.off_work_time)
       IN  /\ ~IsNone(off_work_time)
           /\ LET off_work_dt == Combine(DateOf(now), Val(off_work_time))
                  reminder_dt == off_work_dt - OffWorkLeadMinutes * SecondsPerMinute
              IN  Abs(now - reminder_dt) <= OffWorkToleranceSeconds

\* today_or_tomorrow without the day added to a time already reached
today_not_rolled(tod, now) == Combine(DateOf(now), tod)

\* start_dt / block_end_dt: today's, or tomorrow's when already reached
today_or_tomorrow(tod, now) ==
    LET dt == Combine(DateOf(now), tod)
    IN  IF dt <= now THEN dt + SecondsPerDay ELSE dt

\* the while loop looking for the next day in workdays
RECURSIVE days_ahead_from(_, _, _)
days_ahead_from(weekday, workdays, days_ahead) ==
    IF ((weekday + days_ahead - 1) % DaysPerWeek) + 1 \in workdays
    THEN days_ahead
    ELSE IF days_ahead + 1 > MaxDaysAhead THEN days_ahead + 1
         ELSE days_ahead_from(weekday, workdays, days_ahead + 1)

work_start_times(cfg, now) ==
    IF is_workday(cfg, now)
    THEN { today_or_tomorrow(Val(parse_time(cfg.work_periods[i].start)), now) :
             i \in { j \in 1..Len(cfg.work_periods) :
                       ~IsNone(parse_time(cfg.work_periods[j].start)) } }
    ELSE {}

next_workday_times(cfg, now) ==
    IF ~is_workday(cfg, now) /\ cfg.workdays # {}
    THEN LET days_ahead == days_ahead_from(WeekdayOf(now), cfg.workdays, 1)
             start_time == parse_time(cfg.work_periods[1].start)
         IN  IF /\ days_ahead <= MaxDaysAhead
                /\ cfg.work_periods # << >>
                /\ ~IsNone(start_time)
             THEN { Combine(DateOf(now) + days_ahead, Val(start_time)) }
             ELSE {}
    ELSE {}

block_end_times(cfg, now) ==
    { today_or_tomorrow(Val(parse_time(cfg.block_periods[i].end)), now) :
        i \in { j \in 1..Len(cfg.block_periods) :
                  ~IsNone(parse_time(cfg.block_periods[j].end)) } }

next_times(cfg, now) ==
    work_start_times(cfg, now) \cup next_workday_times(cfg, now)
        \cup block_end_times(cfg, now)

\* the else branch: not in a work period, or in a block period
next_occurrence(cfg, now) ==
    IF next_times(cfg, now) # {} THEN MinOfSet(next_times(cfg, now))
    ELSE now + SecondsPerHour

\* interval_elapsed comparing the seconds elapsed with the minutes of the interval
interval_elapsed_in_seconds(last_reminder_time, interval, now) ==
    IF IsNone(last_reminder_time) THEN TRUE
    ELSE now - Val(last_reminder_time) >= interval

\* interval_elapsed with > in place of >=
interval_elapsed_strictly(last_reminder_time, interval, now) ==
    IF IsNone(last_reminder_time) THEN TRUE
    ELSE now - Val(last_reminder_time) > interval * SecondsPerMinute

interval_elapsed(last_reminder_time, interval, now) ==
    IF IsNone(last_reminder_time) THEN TRUE
    ELSE now - Val(last_reminder_time) >= interval * SecondsPerMinute

(***************************************************************************)
(* Bounds of the model and the inputs it draws.                            *)
(***************************************************************************)
MaxTicks == 3
MaxSaves == 1
MaxPopups == 1
MaxRestarts == 1

At(day, hour, minute, second) ==
    day * SecondsPerDay + hour * SecondsPerHour + minute * SecondsPerMinute + second

\* day 0 is a Monday, day 4 a Friday, day 5 a Saturday, day 6 a Sunday
StartTimes ==
    { At(0, 8, 59, 0), At(0, 12, 15, 0), At(0, 17, 49, 30),
      At(4, 19, 0, 0), At(5, 10, 0, 0), At(6, 14, 0, 0) }

\* the loop sleeps 60 times one second between two passes; a pass may also
\* come later (the machine was busy or suspended)
TickDeltas == { SecondsPerMinute, SecondsPerHour, SecondsPerDay }

\* how long after the last event the user answers a popup
AnswerDelays == { 5 }

\* how long after the last pass of a run the next run of the program begins
RestartDelays == { 20 }

BaseForm ==
    [work |-> << Period(T0900, T1800) >>,
     block |-> << Period(T1200, T1330) >>,
     interval |-> N60,
     workdays |-> {1, 2, 3, 4, 5},
     off_work_time |-> T1800,
     off_work_reminder |-> TRUE,
     auto_start |-> TRUE]

ValidForms ==
    { BaseForm,
      [BaseForm EXCEPT !.interval = N1, !.auto_start = FALSE],
      [BaseForm EXCEPT !.block = << >>, !.off_work_time = Blank],
      [BaseForm EXCEPT !.work = << Period(T0900, T1230), Period(T1300, T1800) >>],
      [BaseForm EXCEPT !.work = << Period(Blank, Blank), Period(T0900, T1800) >>,
                       !.block = << Period(T2200, T0600) >>,
                       !.workdays = {1, 2, 3, 4, 5, 6, 7},
                       !.interval = N1] }

InvalidForms ==
    { [BaseForm EXCEPT !.work = << Period(T9x, T1800) >>],
      [BaseForm EXCEPT !.work = << Period(T0900, Blank) >>],
      [BaseForm EXCEPT !.block = << Period(T1200, T2500) >>],
      [BaseForm EXCEPT !.interval = N0],
      [BaseForm EXCEPT !.interval = NMinus5],
      [BaseForm EXCEPT !.interval = NX],
      [BaseForm EXCEPT !.workdays = {}],
      [BaseForm EXCEPT !.off_work_time = T2500] }

Forms == ValidForms \cup InvalidForms

\* the rows of the editor are saved in the order they are in, here with the
\* afternoon's work period before the morning's
AfternoonFirstForm ==
    [BaseForm EXCEPT !.work = << Period(T1300, T1800), Period(T0900, T1230) >>]

\* a file written by the previous version of the program
LegacyDoc ==
    [start_time |-> T0900, end_time |-> T1800,
     block_start |-> T1200, block_end |-> T1330,
     interval_minutes |-> 60, auto_start |-> TRUE]

\* a file edited by hand: a work period and a block period with a text that
\* is no time, a block period without its start, and no other key but these
MalformedDoc ==
    [work_periods |-> << Period(T9x, T1800), Period(T0900, T1800) >>,
     block_periods |-> << Period(T1200, T2500), Period(NoText, T1330) >>,
     interval_minutes |-> 1, auto_start |-> TRUE]

InitialFiles ==
    { FileAbsent,
      FileJson(LegacyDoc),
      FileJson(MalformedDoc),
      FileJson(validated_config(BaseForm)),
      FileJson(validated_config([BaseForm EXCEPT !.interval = N1])),
      FileJson(validated_config(AfternoonFirstForm)) }

(***************************************************************************)
(* State.                                                                  *)
(***************************************************************************)
VARIABLES
    file,                        \* the contents of config.json
    registry,                    \* the autostart value in the registry is set
    config,                      \* self.config
    running,                     \* self.running
    tray_running,                \* self.tray_running
    is_first_start,              \* self.is_first_start
    last_reminder_time,          \* self.last_reminder_time
    next_reminder,               \* self.next_reminder
    last_off_work_reminder_date, \* self.last_off_work_reminder_date
    editor,                      \* the configuration window: closed, open, writing
    writing,                     \* the config validate_and_start is saving
    standup_popups,              \* stand-up popups not yet answered
    off_work_popups,             \* off-work popups not yet answered
    clock,                       \* when the last pass of the loop began
    ticks,                       \* passes of the loop so far
    saves,                       \* saves begun so far
    event,                       \* what the last step did
    last_fire,                   \* when the loop last fired a stand-up
    saved_since_fire,            \* a save has completed since then
    off_work_dates,              \* the dates on which the loop fired off-work
    saved,                       \* the config of the last completed write
    loaded,                      \* the config of the last load that succeeded
    stored_before,               \* the file as it was when the save under way began
    prev_pass,                   \* the pass before, of this run of the program
    restarts,                    \* how often the program was started again
    earlier_off_work_dates,      \* the dates of the off-work popups of earlier runs
    loop,                        \* the reminder threads: where each one is
    main,                        \* the main thread, inside start_reminder_service
    tray,                        \* the tray thread that runs its icon, 0 for none
    alive,                       \* the process has not exited
    raised,                      \* the reminder threads a pass of which has raised
    fired_after_stop             \* a popup was shown while self.running was False

vars ==
    << file, registry, config, running, tray_running, is_first_start,
       last_reminder_time, next_reminder, last_off_work_reminder_date,
       editor, writing, standup_popups, off_work_popups, clock,
       ticks, saves, event, last_fire, saved_since_fire, off_work_dates,
       saved, loaded, stored_before, prev_pass, restarts,
       earlier_off_work_dates, loop, main, tray, alive, raised,
       fired_after_stop >>

\* the fields of LetMeGoApp the loop owns
scheduler == << is_first_start, last_reminder_time, next_reminder,
                last_off_work_reminder_date >>
\* the bookkeeping of the model
history == << last_fire, saved_since_fire, off_work_dates >>
\* the bookkeeping across runs of the program
runs == << restarts, earlier_off_work_dates >>
\* the threads of the process, followed statement by statement in ThreadSpec
threads == << loop, main, tray, alive, raised, fired_after_stop >>

\* os.path.exists(CONFIG_FILE) and json.load succeed
Loadable(f) == f.kind = "json"

\* the reminder threads the model follows
MaxLoops == 2
Loops == 1..MaxLoops

\* a thread that start_reminder_service has not created
Unborn == [pc |-> "unborn", now |-> 0, interval |-> 0]

\* Spec and MatcherSpec take a pass of the loop as one step and the exit as
\* the end of the process: there the threads are not followed
ThreadsNotFollowed ==
    /\ loop = [t \in Loops |-> Unborn]
    /\ main = "join"
    /\ tray = 1
    /\ alive = TRUE
    /\ raised = {}
    /\ fired_after_stop = FALSE

(***************************************************************************)
(* LetMeGoApp.__init__: load the config; show the editor on the first run  *)
(* (no file), when --config or --setup is given, or when auto_start is     *)
(* off; else start the service at once.                                    *)
(***************************************************************************)
Init ==
    /\ file \in InitialFiles
    /\ registry = FALSE
    /\ clock \in StartTimes
    /\ \E setup_flag \in BOOLEAN :
         LET should_show == setup_flag \/ file.kind = "absent"
             start_now == ~should_show /\ Get(load_config(file), "auto_start", FALSE)
         IN  /\ running = start_now
             /\ editor = IF start_now THEN "closed" ELSE "open"
    /\ config = load_config(file)
    /\ tray_running = TRUE
    /\ is_first_start = TRUE
    /\ last_reminder_time = None
    /\ next_reminder = None
    /\ last_off_work_reminder_date = None
    /\ writing = None
    /\ standup_popups = 0
    /\ off_work_popups = 0
    /\ ticks = 0
    /\ saves = 0
    /\ event = [op |-> "init"]
    /\ last_fire = None
    /\ saved_since_fire = FALSE
    /\ off_work_dates = << >>
    /\ saved = None
    /\ loaded = IF Loadable(file) THEN Some(load_config(file)) ELSE None
    /\ stored_before = None
    /\ prev_pass = None
    /\ restarts = 0
    /\ earlier_off_work_dates = {}
    /\ ThreadsNotFollowed

(***************************************************************************)
(* reminder_service: what one pass of the loop decides and assigns.        *)
(***************************************************************************)
\* effective without the block periods
effective_ignoring_blocks(cfg, now) == in_work_period(cfg, now)

\* "if in_work_period and not in_block_period"
effective(cfg, now) == in_work_period(cfg, now) /\ ~in_block_period(cfg, now)

\* standup_fires without the is_first_start branch before it
standup_fires_unsuppressed(cfg, first, last, now) ==
    /\ in_work_period(cfg, now) /\ ~in_block_period(cfg, now)
    /\ interval_elapsed(last, cfg.interval_minutes, now)

\* standup_fires waiting for the popups shown before to be answered
standup_fires_when_answered(cfg, first, last, now) ==
    /\ standup_popups = 0
    /\ effective(cfg, now)
    /\ ~first
    /\ interval_elapsed(last, cfg.interval_minutes, now)

\* standup_fires held back until the next_reminder shown in the tray is reached
standup_fires_when_next_reached(cfg, first, last, now) ==
    /\ IsNone(next_reminder) \/ now >= Val(next_reminder)
    /\ effective(cfg, now)
    /\ ~first
    /\ interval_elapsed(last, cfg.interval_minutes, now)

\* the elif branch: self.show_reminder_popup() is called
standup_fires(cfg, first, last, now) ==
    /\ effective(cfg, now)
    /\ ~first
    /\ interval_elapsed(last, cfg.interval_minutes, now)

\* off_work_fires without the check of last_off_work_reminder_date
off_work_fires_unlatched(cfg, last_off_date, now) == off_work_due(cfg, now)

\* off_work_fires only in a work period and outside the block periods
off_work_fires_when_effective(cfg, last_off_date, now) ==
    /\ off_work_due(cfg, now) /\ last_off_date # Some(DateOf(now))
    /\ in_work_period(cfg, now) /\ ~in_block_period(cfg, now)

\* the off-work popup is shown
off_work_fires(cfg, last_off_date, now) ==
    off_work_due(cfg, now) /\ last_off_date # Some(DateOf(now))

\* last_reminder_after with the is_first_start branch taken by a first pass
\* wherever it falls, not only in a work period outside the block periods
last_reminder_after_first_anywhere(cfg, first, last, now) ==
    IF first \/ (effective(cfg, now)
                   /\ interval_elapsed(last, cfg.interval_minutes, now))
    THEN Some(now)
    ELSE last

\* self.last_reminder_time after the pass
last_reminder_after(cfg, first, last, now) ==
    IF effective(cfg, now)
       /\ (first \/ interval_elapsed(last, cfg.interval_minutes, now))
    THEN Some(now)
    ELSE last

\* self.next_reminder after the pass
next_reminder_after(cfg, first, last, now) ==
    IF effective(cfg, now)
    THEN IF first \/ interval_elapsed(last, cfg.interval_minutes, now)
         THEN now + cfg.interval_minutes * SecondsPerMinute
         ELSE \* now + (interval - elapsed) minutes
              now + (cfg.interval_minutes * SecondsPerMinute
                       - (now - Val(last)))
    ELSE next_occurrence(cfg, now)

\* "每天重置下班提醒日期": cleared once the date is before today
daily_reset(date, today) ==
    IF ~IsNone(date) /\ Val(date) < today THEN None ELSE date

\* a popup more is waiting for its answer (the model counts up to MaxPopups)
OneMore(n) == IF n < MaxPopups THEN n + 1 ELSE n

Tick(d) ==
    /\ running
    /\ ticks < MaxTicks
    /\ IsNone(prev_pass) => d = SecondsPerMinute
    /\ LET now == IF IsNone(prev_pass) THEN clock ELSE clock + d
           cfg == load_config(file)
           today == DateOf(now)
           n == IF IsNone(prev_pass) THEN 1 ELSE Val(prev_pass).n + 1
       IN  /\ clock' = now
           /\ ticks' = ticks + 1
           /\ prev_pass' = Some([n |-> n,
                                 interval |-> cfg.interval_minutes,
                                 effective |-> effective(cfg, now)])
           /\ config' = cfg
           /\ loaded' = IF Loadable(file) THEN Some(cfg) ELSE loaded
           /\ IF cfg.work_periods = << >>
              THEN \* time.sleep(60); continue
                   /\ UNCHANGED << scheduler, history, standup_popups,
                                   off_work_popups >>
                   /\ event' = [op |-> "skip", now |-> now, cfg |-> cfg]
              ELSE LET off == off_work_fires(cfg, last_off_work_reminder_date, now)
                       fire == standup_fires(cfg, is_first_start,
                                             last_reminder_time, now)
                   IN  /\ off_work_popups' =
                              IF off THEN OneMore(off_work_popups)
                                     ELSE off_work_popups
                       /\ standup_popups' =
                              IF fire THEN OneMore(standup_popups)
                                      ELSE standup_popups
                       /\ last_off_work_reminder_date' =
                              daily_reset(IF off THEN Some(today)
                                                 ELSE last_off_work_reminder_date,
                                          today)
                       /\ is_first_start' =
                              (is_first_start /\ ~effective(cfg, now))
                       /\ last_reminder_time' =
                              last_reminder_after(cfg, is_first_start,
                                                  last_reminder_time, now)
                       /\ next_reminder' =
                              Some(next_reminder_after(cfg, is_first_start,
                                                       last_reminder_time, now))
                       /\ last_fire' = IF fire THEN Some(now) ELSE last_fire
                       /\ saved_since_fire' =
                              IF fire THEN FALSE ELSE saved_since_fire
                       /\ off_work_dates' =
                              IF off THEN Append(off_work_dates, today)
                                     ELSE off_work_dates
                       /\ event' = [op |-> "tick", now |-> now, cfg |-> cfg,
                                    n |-> n,
                                    standup |-> fire, off_work |-> off,
                                    first |-> is_first_start,
                                    last |-> last_reminder_time,
                                    last_off |-> last_off_work_reminder_date,
                                    next |-> next_reminder,
                                    prev_fire |-> last_fire,
                                    saved_since |-> saved_since_fire,
                                    pending |-> standup_popups,
                                    delta |-> now - clock,
                                    prev |-> prev_pass]
    /\ UNCHANGED << threads, runs, stored_before,
                    file, registry, running, tray_running, editor, writing,
                    saves, saved >>

(***************************************************************************)
(* The configuration editor.  on_tray_show_config opens the window, which  *)
(* reloads the config; validate_and_start either shows an error and        *)
(* returns, or assigns self.config and saves.  The save is two steps for   *)
(* the loop running beside it: open(file, "w") empties the file, and the   *)
(* rest of validate_and_start runs once json.dump has ended.               *)
(***************************************************************************)
on_tray_show_config ==
    /\ running /\ tray_running
    /\ editor = "closed"
    /\ saves < MaxSaves
    /\ editor' = "open"
    /\ config' = load_config(file)
    /\ loaded' = IF Loadable(file) THEN Some(load_config(file)) ELSE loaded
    /\ event' = [op |-> "show_config"]
    /\ UNCHANGED << threads, runs, stored_before, prev_pass,
                    file, registry, running, tray_running, scheduler, writing,
                    standup_popups, off_work_popups, clock, ticks,
                    saves, history, saved >>

\* SaveRejected clearing last_reminder_time as a completed save does
SaveRejected_clearing(form) ==
    /\ tray_running
    /\ editor = "open"
    /\ validation_fails(form)
    /\ event' = [op |-> "rejected"]
    /\ last_reminder_time' = None
    /\ UNCHANGED << threads, runs, stored_before, prev_pass,
                    file, registry, config, running, tray_running,
                    is_first_start, next_reminder, last_off_work_reminder_date,
                    editor, writing, standup_popups, off_work_popups, clock,
                    ticks, saves, history, saved, loaded >>

\* validate_and_start on a form that fails a check: an error box, return
SaveRejected(form) ==
    /\ tray_running
    /\ editor = "open"
    /\ validation_fails(form)
    /\ event' = [op |-> "rejected"]
    /\ UNCHANGED << threads, runs, stored_before, prev_pass,
                    file, registry, config, running, tray_running, scheduler,
                    editor, writing, standup_popups, off_work_popups, clock,
                    ticks, saves, history, saved, loaded >>

\* validate_and_start on a form that passes: self.config = {...} and
\* save_config opens the file for writing
SaveBegin(form) ==
    /\ tray_running
    /\ editor = "open"
    /\ saves < MaxSaves
    /\ ~validation_fails(form)
    /\ config' = validated_config(form)
    /\ writing' = Some(validated_config(form))
    /\ editor' = "writing"
    /\ file' = FilePartial
    /\ stored_before' = Some(file)
    /\ saved' = None
    /\ saves' = saves + 1
    /\ event' = [op |-> "save_begin"]
    /\ UNCHANGED << threads, runs, prev_pass,
                    registry, running, tray_running, scheduler, standup_popups,
                    off_work_popups, clock, ticks, history, loaded >>

\* AutoStartManager.set_auto_start(enabled): the value is set or deleted
set_auto_start(enabled) == enabled

\* json.dump has written the file; set_auto_start; root.destroy();
\* then start_reminder_service, or self.last_reminder_time = None
SaveEnd ==
    /\ tray_running
    /\ editor = "writing"
    /\ LET cfg == Val(writing)
       IN  /\ file' = save_config(cfg)
           /\ saved' = Some(cfg)
           /\ registry' = set_auto_start(cfg.auto_start)
           /\ event' = [op |-> "save_end", started |-> ~running]
    /\ editor' = "closed"
    /\ writing' = None
    /\ stored_before' = None
    /\ IF ~running
       THEN \* start_reminder_service
            /\ running' = TRUE
            /\ UNCHANGED << last_reminder_time, saved_since_fire >>
       ELSE /\ last_reminder_time' = None
            /\ saved_since_fire' = TRUE
            /\ UNCHANGED running
    /\ UNCHANGED << threads, runs, prev_pass,
                    config, tray_running, is_first_start, next_reminder,
                    last_off_work_reminder_date, standup_popups,
                    off_work_popups, clock, ticks, saves, last_fire,
                    off_work_dates, loaded >>

(***************************************************************************)
(* Popups and the tray menu.                                               *)
(***************************************************************************)
\* AnswerStandUp with a yes that leaves last_reminder_time as the loop set it
AnswerStandUp_keeping_fire_time(yes, delay) ==
    /\ tray_running
    /\ standup_popups > 0
    /\ delay < SecondsPerMinute
    /\ standup_popups' = standup_popups - 1
    /\ event' = [op |-> "answer", yes |-> yes, now |-> clock + delay,
                 last |-> last_reminder_time]
    /\ UNCHANGED << threads, runs, stored_before, prev_pass,
                    file, registry, config, running, tray_running, scheduler,
                    editor, writing, off_work_popups, clock, ticks, saves,
                    history, saved, loaded >>

\* the askyesno of a stand-up popup returns; yes sets last_reminder_time
AnswerStandUp(yes, delay) ==
    /\ tray_running
    /\ standup_popups > 0
    /\ delay < SecondsPerMinute
    /\ standup_popups' = standup_popups - 1
    /\ last_reminder_time' = IF yes THEN Some(clock + delay)
                                    ELSE last_reminder_time
    /\ event' = [op |-> "answer", yes |-> yes, now |-> clock + delay,
                 last |-> last_reminder_time]
    /\ UNCHANGED << threads, runs, stored_before, prev_pass,
                    file, registry, config, running, tray_running,
                    is_first_start, next_reminder, last_off_work_reminder_date,
                    editor, writing, off_work_popups, clock, ticks, saves,
                    history, saved, loaded >>

\* the showinfo of an off-work popup returns
AnswerOffWork ==
    /\ tray_running
    /\ off_work_popups > 0
    /\ off_work_popups' = off_work_popups - 1
    /\ event' = [op |-> "answer_off_work", last |-> last_reminder_time]
    /\ UNCHANGED << threads, runs, stored_before, prev_pass,
                    file, registry, config, running, tray_running, scheduler,
                    editor, writing, standup_popups, clock, ticks,
                    saves, history, saved, loaded >>

on_tray_manual_reminder ==
    /\ running /\ tray_running
    /\ standup_popups < MaxPopups
    /\ standup_popups' = standup_popups + 1
    /\ event' = [op |-> "manual_reminder"]
    /\ UNCHANGED << threads, runs, stored_before, prev_pass,
                    file, registry, config, running, tray_running, scheduler,
                    editor, writing, off_work_popups, clock, ticks,
                    saves, history, saved, loaded >>

on_tray_exit ==
    /\ running /\ tray_running
    /\ running' = FALSE
    /\ tray_running' = FALSE
    /\ event' = [op |-> "exit"]
    /\ UNCHANGED << threads, runs, stored_before, prev_pass,
                    file, registry, config, scheduler, editor, writing,
                    standup_popups, off_work_popups, clock, ticks,
                    saves, history, saved, loaded >>

(***************************************************************************)
(* The program is started again after it has exited: main() constructs a   *)
(* new LetMeGoApp.  The file and the registry are what the earlier run     *)
(* left; every field of the object is set anew by __init__, and the popups *)
(* of the earlier run went with its process.                               *)
(***************************************************************************)
Restart(delay, setup_flag) ==
    /\ ~tray_running
    /\ restarts < MaxRestarts
    /\ restarts' = restarts + 1
    /\ clock' = clock + delay
    /\ LET should_show == setup_flag \/ file.kind = "absent"
           start_now == ~should_show /\ Get(load_config(file), "auto_start", FALSE)
       IN  /\ running' = start_now
           /\ editor' = IF start_now THEN "closed" ELSE "open"
    /\ config' = load_config(file)
    /\ loaded' = IF Loadable(file) THEN Some(load_config(file)) ELSE None
    /\ tray_running' = TRUE
    /\ is_first_start' = TRUE
    /\ last_reminder_time' = None
    /\ next_reminder' = None
    /\ last_off_work_reminder_date' = None
    /\ writing' = None
    /\ standup_popups' = 0
    /\ off_work_popups' = 0
    /\ prev_pass' = None
    /\ last_fire' = None
    /\ saved_since_fire' = FALSE
    /\ off_work_dates' = << >>
    /\ earlier_off_work_dates' =
           earlier_off_work_dates
               \cup { off_work_dates[i] : i \in 1..Len(off_work_dates) }
    /\ event' = [op |-> "restart"]
    /\ stored_before' = None
    /\ UNCHANGED << threads, file, registry, ticks, saves, saved >>

Next ==
    \/ \E d \in TickDeltas : Tick(d)
    \/ on_tray_show_config
    \/ \E form \in Forms : SaveRejected(form)
    \/ \E form \in Forms : SaveBegin(form)
    \/ SaveEnd
    \/ \E yes \in BOOLEAN, delay \in AnswerDelays : AnswerStandUp(yes, delay)
    \/ AnswerOffWork
    \/ on_tray_manual_reminder
    \/ on_tray_exit

Spec == Init /\ [][Next]_vars

(***************************************************************************)
(* Runs of the program one after the other: the service is started from    *)
(* __init__ with a file that has auto_start set, makes its passes, is      *)
(* stopped from the tray menu, and the program is started again.           *)
(***************************************************************************)
RestartFiles ==
    { FileJson(validated_config(BaseForm)),
      FileJson(validated_config([BaseForm EXCEPT !.interval = N1])) }

RestartInit ==
    /\ Init
    /\ file \in RestartFiles
    /\ running

RestartNext ==
    \/ \E d \in TickDeltas : Tick(d)
    \/ \E yes \in BOOLEAN, delay \in AnswerDelays : AnswerStandUp(yes, delay)
    \/ AnswerOffWork
    \/ on_tray_exit
    \/ \E delay \in RestartDelays, setup_flag \in BOOLEAN :
           Restart(delay, setup_flag)

RestartSpec == RestartInit /\ [][RestartNext]_vars

(***************************************************************************)
(* The threads of one process, statement by statement.  The service was    *)
(* started from __init__: the main thread is inside start_reminder_service *)
(* in tray_thread.join(), reminder thread 1 is at "while self.running" and *)
(* tray thread 1 runs its icon.  A reminder thread is at one of            *)
(*   head          while self.running                                      *)
(*   pass          the try block, up to "self.last_reminder_time is None"  *)
(*   elapsed       (now - self.last_reminder_time) of the elif condition   *)
(*   remaining     (now - self.last_reminder_time) of the else branch      *)
(*   sleep_check   "if not self.running: return" of the for loop           *)
(*   sleeping      update_tray_icon(); time.sleep(1)                       *)
(*   recovering    the except clause: print, time.sleep(60)                *)
(*   ended         the thread has returned                                 *)
(* The editor window is a daemon thread of its own; its validate_and_start *)
(* is one step here.  The process exits when the main thread and the tray  *)
(* threads (the threads that are not daemons) have ended.                  *)
(***************************************************************************)
ThreadStartTimes == { At(0, 8, 59, 0), At(0, 17, 49, 30) }
ThreadForms == { BaseForm, [BaseForm EXCEPT !.interval = N1] }

InLoop(t) == loop[t].pc \notin { "unborn", "ended" }
At_(pc_) == [pc |-> pc_, now |-> 0, interval |-> 0]

\* the bookkeeping of Spec that the threads leave alone
unfollowed == << writing, loaded, stored_before, prev_pass, history, runs >>

ThreadInit ==
    /\ file \in RestartFiles
    /\ clock \in ThreadStartTimes
    /\ config = load_config(file)
    /\ registry = FALSE
    /\ running = TRUE
    /\ tray_running = TRUE
    /\ is_first_start = TRUE
    /\ last_reminder_time = None
    /\ next_reminder = None
    /\ last_off_work_reminder_date = None
    /\ editor = "closed"
    /\ writing = None
    /\ standup_popups = 0
    /\ off_work_popups = 0
    /\ ticks = 0
    /\ saves = 0
    /\ event = [op |-> "init"]
    /\ last_fire = None
    /\ saved_since_fire = FALSE
    /\ off_work_dates = << >>
    /\ saved = None
    /\ loaded = Some(load_config(file))
    /\ stored_before = None
    /\ prev_pass = None
    /\ restarts = 0
    /\ earlier_off_work_dates = {}
    /\ loop = [t \in Loops |-> IF t = 1 THEN At_("head") ELSE Unborn]
    /\ main = "join"
    /\ tray = 1
    /\ alive = TRUE
    /\ raised = {}
    /\ fired_after_stop = FALSE

\* while self.running:
reminder_service_head(t) ==
    /\ alive
    /\ loop[t].pc = "head"
    /\ IF running
       THEN /\ ticks < MaxTicks
            /\ ticks' = ticks + 1
            /\ loop' = [loop EXCEPT ![t] = At_("pass")]
       ELSE /\ loop' = [loop EXCEPT ![t] = At_("ended")]
            /\ UNCHANGED ticks
    /\ event' = [op |-> "head", t |-> t]
    /\ UNCHANGED << file, registry, config, running, tray_running, scheduler,
                    editor, standup_popups, off_work_popups, clock, saves,
                    saved, unfollowed, main, tray, alive, raised,
                    fired_after_stop >>

\* the try block from load_config to the test "self.last_reminder_time is
\* None"; when that test is false the thread goes on to the subtraction
reminder_service_pass(t) ==
    /\ alive
    /\ loop[t].pc = "pass"
    /\ LET now == clock
           cfg == load_config(file)
           today == DateOf(now)
           off == off_work_fires(cfg, last_off_work_reminder_date, now)
           latched == IF off THEN Some(today) ELSE last_off_work_reminder_date
           eff == effective(cfg, now)
           fire == eff /\ ~is_first_start /\ IsNone(last_reminder_time)
           compare == eff /\ ~is_first_start /\ ~IsNone(last_reminder_time)
       IN  /\ config' = cfg
           /\ IF cfg.work_periods = << >>
              THEN \* time.sleep(60); continue
                   /\ loop' = [loop EXCEPT ![t] = At_("recovering")]
                   /\ UNCHANGED << scheduler, standup_popups, off_work_popups,
                                   fired_after_stop >>
              ELSE /\ off_work_popups' =
                          IF off THEN OneMore(off_work_popups)
                                 ELSE off_work_popups
                   /\ standup_popups' =
                          IF fire THEN OneMore(standup_popups)
                                  ELSE standup_popups
                   /\ fired_after_stop' =
                          (fired_after_stop \/ (~running /\ (off \/ fire)))
                   /\ IF compare
                      THEN /\ loop' = [loop EXCEPT ![t] =
                                          [pc |-> "elapsed", now |-> now,
                                           interval |-> cfg.interval_minutes]]
                           /\ last_off_work_reminder_date' = latched
                           /\ UNCHANGED << is_first_start, last_reminder_time,
                                           next_reminder >>
                      ELSE /\ loop' = [loop EXCEPT ![t] = At_("sleep_check")]
                           /\ last_off_work_reminder_date' =
                                  daily_reset(latched, today)
                           /\ is_first_start' = (is_first_start /\ ~eff)
                           /\ last_reminder_time' =
                                  IF eff THEN Some(now) ELSE last_reminder_time
                           /\ next_reminder' =
                                  Some(IF eff
                                       THEN now + cfg.interval_minutes
                                                    * SecondsPerMinute
                                       ELSE next_occurrence(cfg, now))
    /\ event' = [op |-> "pass", t |-> t]
    /\ UNCHANGED << file, registry, running, tray_running, editor, clock,
                    ticks, saves, saved, unfollowed, main, tray, alive, raised >>

\* reminder_service_elapsed with no except clause around the pass: the
\* exception ends the thread
reminder_service_elapsed_uncaught(t) ==
    /\ alive
    /\ loop[t].pc = "elapsed"
    /\ IF IsNone(last_reminder_time)
       THEN /\ loop' = [loop EXCEPT ![t] = At_("ended")]
            /\ raised' = raised \cup {t}
            /\ UNCHANGED << scheduler, standup_popups, fired_after_stop >>
       ELSE /\ loop' = [loop EXCEPT ![t].pc = "remaining"]
            /\ UNCHANGED << scheduler, standup_popups, fired_after_stop,
                            raised >>
    /\ event' = [op |-> "elapsed", t |-> t]
    /\ UNCHANGED << file, registry, config, running, tray_running, editor,
                    off_work_popups, clock, ticks, saves, saved, unfollowed,
                    main, tray, alive >>

\* (now - self.last_reminder_time).total_seconds() >= interval * 60: the
\* subtraction raises TypeError when the attribute has become None, and the
\* except clause of the loop catches it
reminder_service_elapsed(t) ==
    /\ alive
    /\ loop[t].pc = "elapsed"
    /\ LET now == loop[t].now
           interval == loop[t].interval
       IN  IF IsNone(last_reminder_time)
           THEN /\ loop' = [loop EXCEPT ![t] = At_("recovering")]
                /\ raised' = raised \cup {t}
                /\ UNCHANGED << scheduler, standup_popups, fired_after_stop >>
           ELSE IF interval_elapsed(last_reminder_time, interval, now)
                THEN \* show_reminder_popup() and the end of the pass
                     /\ loop' = [loop EXCEPT ![t] = At_("sleep_check")]
                     /\ standup_popups' = OneMore(standup_popups)
                     /\ fired_after_stop' = (fired_after_stop \/ ~running)
                     /\ last_reminder_time' = Some(now)
                     /\ next_reminder' =
                            Some(now + interval * SecondsPerMinute)
                     /\ last_off_work_reminder_date' =
                            daily_reset(last_off_work_reminder_date,
                                        DateOf(now))
                     /\ UNCHANGED << is_first_start, raised >>
                ELSE /\ loop' = [loop EXCEPT ![t].pc = "remaining"]
                     /\ UNCHANGED << scheduler, standup_popups,
                                     fired_after_stop, raised >>
    /\ event' = [op |-> "elapsed", t |-> t]
    /\ UNCHANGED << file, registry, config, running, tray_running, editor,
                    off_work_popups, clock, ticks, saves, saved, unfollowed,
                    main, tray, alive >>

\* elapsed = (now - self.last_reminder_time).total_seconds() / 60
reminder_service_remaining(t) ==
    /\ alive
    /\ loop[t].pc = "remaining"
    /\ LET now == loop[t].now
           interval == loop[t].interval
       IN  IF IsNone(last_reminder_time)
           THEN /\ loop' = [loop EXCEPT ![t] = At_("recovering")]
                /\ raised' = raised \cup {t}
                /\ UNCHANGED scheduler
           ELSE /\ loop' = [loop EXCEPT ![t] = At_("sleep_check")]
                /\ next_reminder' =
                       Some(now + (interval * SecondsPerMinute
                                     - (now - Val(last_reminder_time))))
                /\ last_off_work_reminder_date' =
                       daily_reset(last_off_work_reminder_date, DateOf(now))
                /\ UNCHANGED << is_first_start, last_reminder_time, raised >>
    /\ event' = [op |-> "remaining", t |-> t]
    /\ UNCHANGED << file, registry, config, running, tray_running, editor,
                    standup_popups, off_work_popups, clock, ticks, saves,
                    saved, unfollowed, main, tray, alive, fired_after_stop >>

\* for _ in range(60): if not self.running: return
reminder_service_sleep_check(t) ==
    /\ alive
    /\ loop[t].pc = "sleep_check"
    /\ loop' = [loop EXCEPT ![t] =
                   IF running THEN At_("sleeping") ELSE At_("ended")]
    /\ event' = [op |-> "sleep_check", t |-> t]
    /\ UNCHANGED << file, registry, config, running, tray_running, scheduler,
                    editor, standup_popups, off_work_popups, clock, ticks,
                    saves, saved, unfollowed, main, tray, alive, raised,
                    fired_after_stop >>

\* time.sleep(1) returns: the next of the 60 rounds, or, after the last
\* round, the head of the loop a minute after the pass
reminder_service_sleep(t, last_round) ==
    /\ alive
    /\ loop[t].pc = "sleeping"
    /\ IF last_round
       THEN /\ loop' = [loop EXCEPT ![t] = At_("head")]
            /\ clock' = clock + SecondsPerMinute
       ELSE /\ loop' = [loop EXCEPT ![t] = At_("sleep_check")]
            /\ UNCHANGED clock
    /\ event' = [op |-> "sleep", t |-> t]
    /\ UNCHANGED << file, registry, config, running, tray_running, scheduler,
                    editor, standup_popups, off_work_popups, ticks,
                    saves, saved, unfollowed, main, tray, alive, raised,
                    fired_after_stop >>

\* except Exception: print(...); time.sleep(60) returns
reminder_service_recover(t) ==
    /\ alive
    /\ loop[t].pc = "recovering"
    /\ loop' = [loop EXCEPT ![t] = At_("head")]
    /\ clock' = clock + SecondsPerMinute
    /\ event' = [op |-> "recover", t |-> t]
    /\ UNCHANGED << file, registry, config, running, tray_running, scheduler,
                    editor, standup_popups, off_work_popups, ticks,
                    saves, saved, unfollowed, main, tray, alive, raised,
                    fired_after_stop >>

\* on_tray_exit in the tray thread: the flags, and icon.stop() ends icon.run()
tray_exit ==
    /\ alive
    /\ tray # 0
    /\ running' = FALSE
    /\ tray_running' = FALSE
    /\ tray' = 0
    /\ event' = [op |-> "exit"]
    /\ UNCHANGED << file, registry, config, scheduler, editor, standup_popups,
                    off_work_popups, clock, ticks, saves, saved, unfollowed,
                    loop, main, alive, raised, fired_after_stop >>

\* the main thread: tray_thread.join() returns, self.running = False, and
\* start_reminder_service, __init__ and main return
start_reminder_service_joined ==
    /\ alive
    /\ main = "join"
    /\ tray # 1
    /\ running' = FALSE
    /\ main' = "ended"
    /\ event' = [op |-> "joined"]
    /\ UNCHANGED << file, registry, config, tray_running, scheduler, editor,
                    standup_popups, off_work_popups, clock, ticks, saves,
                    saved, unfollowed, loop, tray, alive, raised,
                    fired_after_stop >>

\* validate_and_start in the editor thread, on a form that passes the
\* checks: the config is saved, and "if not self.running" either calls
\* start_reminder_service (the flag, a reminder thread, a tray thread, and
\* the join) or clears last_reminder_time
validate_and_start(form) ==
    /\ alive
    /\ editor = "open"
    /\ saves < MaxSaves
    /\ ~validation_fails(form)
    /\ LET cfg == validated_config(form)
       IN  /\ config' = cfg
           /\ file' = save_config(cfg)
           /\ saved' = Some(cfg)
           /\ registry' = set_auto_start(cfg.auto_start)
    /\ saves' = saves + 1
    /\ IF ~running
       THEN /\ \E t \in Loops :
                 /\ loop[t].pc = "unborn"
                 /\ \A u \in Loops : u < t => loop[u].pc # "unborn"
                 /\ loop' = [loop EXCEPT ![t] = At_("head")]
            /\ running' = TRUE
            /\ tray' = 2
            /\ editor' = "join"
            /\ UNCHANGED last_reminder_time
       ELSE /\ last_reminder_time' = None
            /\ editor' = "closed"
            /\ UNCHANGED << running, loop, tray >>
    /\ event' = [op |-> "save"]
    /\ UNCHANGED << tray_running, is_first_start, next_reminder,
                    last_off_work_reminder_date, standup_popups,
                    off_work_popups, clock, ticks, unfollowed, main, alive,
                    raised, fired_after_stop >>

\* the editor thread: the join of the tray thread it started returns,
\* self.running = False, and validate_and_start returns
validate_and_start_joined ==
    /\ alive
    /\ editor = "join"
    /\ tray # 2
    /\ running' = FALSE
    /\ editor' = "closed"
    /\ event' = [op |-> "joined"]
    /\ UNCHANGED << file, registry, config, tray_running, scheduler,
                    standup_popups, off_work_popups, clock, ticks, saves,
                    saved, unfollowed, loop, main, tray, alive, raised,
                    fired_after_stop >>

\* the main thread and the tray threads have ended: the interpreter exits
\* and the daemon threads (reminder, editor, popups) end with it
process_exit ==
    /\ alive
    /\ main = "ended"
    /\ tray = 0
    /\ alive' = FALSE
    /\ event' = [op |-> "process_exit"]
    /\ UNCHANGED << file, registry, config, running, tray_running, scheduler,
                    editor, standup_popups, off_work_popups, clock, ticks,
                    saves, saved, unfollowed, loop, main, tray, raised,
                    fired_after_stop >>

ThreadNext ==
    \/ \E t \in Loops : reminder_service_head(t)
    \/ \E t \in Loops : reminder_service_pass(t)
    \/ \E t \in Loops : reminder_service_elapsed(t)
    \/ \E t \in Loops : reminder_service_remaining(t)
    \/ \E t \in Loops : reminder_service_sleep_check(t)
    \/ \E t \in Loops, last_round \in BOOLEAN : reminder_service_sleep(t, last_round)
    \/ \E t \in Loops : reminder_service_recover(t)
    \/ on_tray_show_config
    \/ \E form \in ThreadForms : validate_and_start(form)
    \/ validate_and_start_joined
    \/ tray_exit
    \/ start_reminder_service_joined
    \/ process_exit

ThreadSpec == ThreadInit /\ [][ThreadNext]_vars

(***************************************************************************)
(* The cadence of the loop near the off-work check.  Between two passes    *)
(* the loop makes 60 rounds of update_tray_icon() and time.sleep(1): the   *)
(* next pass reads the clock 60 s later plus what the pass and the 60      *)
(* redrawings of the icon took.  The service was started from __init__ in  *)
(* the minutes before off_work_time minus 10 minutes, and nothing but the  *)
(* loop and the off-work popup acts.                                       *)
(***************************************************************************)
\* whole seconds a pass and its 60 redrawings of the icon take
PassOverheads == { 0, 1, 2 }
CadenceDeltas == { SecondsPerMinute + o : o \in PassOverheads }

\* Monday 17:47:00 .. 17:48:59
CadenceStartTimes ==
    { At(0, 17, m, s) : m \in { 47, 48 }, s \in 0..(SecondsPerMinute - 1) }

\* config files with auto_start set: the editor's, and files edited by hand
\* whose work period ends at 12:30, whose block period lasts until 18:00,
\* with the off-work reminder off, without the Monday, and with an
\* off_work_time that is no time
CadenceFiles ==
    RestartFiles \cup
    { FileJson([validated_config(BaseForm) EXCEPT
                    !.work_periods = << Period(T0900, T1230) >>]),
      FileJson([validated_config(BaseForm) EXCEPT
                    !.block_periods = << Period(T1200, T1800) >>]),
      FileJson([validated_config(BaseForm) EXCEPT
                    !.off_work_reminder_enabled = FALSE]),
      FileJson([validated_config(BaseForm) EXCEPT !.workdays = {2, 3, 4, 5}]),
      FileJson([validated_config(BaseForm) EXCEPT !.off_work_time = T2500]) }

CadenceInit ==
    /\ file \in CadenceFiles
    /\ clock \in CadenceStartTimes
    /\ config = load_config(file)
    /\ registry = FALSE
    /\ running = TRUE
    /\ tray_running = TRUE
    /\ is_first_start = TRUE
    /\ last_reminder_time = None
    /\ next_reminder = None
    /\ last_off_work_reminder_date = None
    /\ editor = "closed"
    /\ writing = None
    /\ standup_popups = 0
    /\ off_work_popups = 0
    /\ ticks = 0
    /\ saves = 0
    /\ event = [op |-> "init"]
    /\ last_fire = None
    /\ saved_since_fire = FALSE
    /\ off_work_dates = << >>
    /\ saved = None
    /\ loaded = Some(load_config(file))
    /\ stored_before = None
    /\ prev_pass = None
    /\ restarts = 0
    /\ earlier_off_work_dates = {}
    /\ ThreadsNotFollowed

CadenceNext ==
    \/ \E d \in CadenceDeltas : Tick(d)
    \/ AnswerOffWork

CadenceSpec == CadenceInit /\ [][CadenceNext]_vars

(***************************************************************************)
(* The window matcher on its own: the initial state draws a sequence of    *)
(* windows and a clock time, and Match applies the loop's matching to it.  *)
(***************************************************************************)
MaxPeriods == 2

ProbeTexts == { T0600, T0900, T1800, T2200 }
ProbePeriods == { Period(s, e) : s \in ProbeTexts, e \in ProbeTexts }
ProbePeriodSeqs == UNION { [1..n -> ProbePeriods] : n \in 0..MaxPeriods }
ProbeTimes ==
    { At(0, 0, 0, 0), At(0, 6, 0, 0), At(0, 7, 30, 0), At(0, 9, 0, 0),
      At(0, 18, 0, 0), At(0, 18, 0, 30), At(0, 22, 0, 0), At(0, 23, 59, 59) }

MatcherInit ==
    /\ event \in { [op |-> "probe", periods |-> ps, t |-> t] :
                     ps \in ProbePeriodSeqs, t \in ProbeTimes }
    /\ file = FileAbsent
    /\ registry = FALSE
    /\ config = default_config
    /\ running = FALSE
    /\ tray_running = TRUE
    /\ is_first_start = TRUE
    /\ last_reminder_time = None
    /\ next_reminder = None
    /\ last_off_work_reminder_date = None
    /\ editor = "open"
    /\ writing = None
    /\ standup_popups = 0
    /\ off_work_popups = 0
    /\ clock = 0
    /\ ticks = 0
    /\ saves = 0
    /\ last_fire = None
    /\ saved_since_fire = FALSE
    /\ off_work_dates = << >>
    /\ saved = None
    /\ loaded = None
    /\ stored_before = None
    /\ prev_pass = None
    /\ restarts = 0
    /\ earlier_off_work_dates = {}
    /\ ThreadsNotFollowed

Match ==
    /\ event.op = "probe"
    /\ event' = [op |-> "match", periods |-> event.periods, t |-> event.t,
                 result |-> any_period_matches(event.periods, event.t)]
    /\ UNCHANGED << threads, runs, stored_before, prev_pass,
                    file, registry, config, running, tray_running, scheduler,
                    editor, writing, standup_popups, off_work_popups, clock,
                    ticks, saves, history, saved, loaded >>

MatcherNext == Match

MatcherSpec == MatcherInit /\ [][MatcherNext]_vars

(***************************************************************************)
(* Properties.                                                             *)
(***************************************************************************)
IsTick == event.op = "tick"

\* a window with well-formed ends contains the clock time t
WindowContains(w, t) ==
    LET s == parse_time(w.start)
        e == parse_time(w.end)
    IN  IF IsNone(s) \/ IsNone(e) THEN FALSE
        ELSE IF Val(s) <= Val(e) THEN Val(s) <= t /\ t <= Val(e)
             ELSE t >= Val(s) \/ t <= Val(e)

InSomeWindow(ws, t) == \E i \in 1..Len(ws) : WindowContains(ws[i], t)

\* the tick was on a workday, in a work period and in no block period
TickWasEffective ==
    /\ WeekdayOf(event.now) \in event.cfg.workdays
    /\ InSomeWindow(event.cfg.work_periods, TimeOf(event.now))
    /\ ~InSomeWindow(event.cfg.block_periods, TimeOf(event.now))

IntervalSeconds(cfg) == cfg.interval_minutes * SecondsPerMinute

C2_NeverEarlierThanInterval ==
    (IsTick /\ event.standup /\ ~IsNone(event.prev_fire)) =>
        event.now >= Val(event.prev_fire) + IntervalSeconds(event.cfg)

\* C2 amended: a stand-up the loop fires is never earlier than the
\* interval_minutes of the config the firing pass read after the stand-up it
\* fired before, unless the editor has saved a config in between (the save
\* clears last_reminder_time and the next pass in the effective condition fires).
C2_NeverEarlierUnlessSaved ==
    (IsTick /\ event.standup /\ ~IsNone(event.prev_fire) /\ ~event.saved_since) =>
        event.now >= Val(event.prev_fire) + IntervalSeconds(event.cfg)

C2_Witness ==
    IsTick /\ event.standup /\ ~IsNone(event.prev_fire) /\ ~event.saved_since

\* C3: the loop fires the off-work popup at most once on a date, however many
\* passes fall within 30 seconds of off_work_time minus 10 minutes, and a pass
\* that falls in that window on a date with no off-work popup yet fires it (so
\* it fires again in the next workday's window).
C3_OffWorkOncePerDate ==
    /\ \A i, j \in 1..Len(off_work_dates) :
           i # j => off_work_dates[i] # off_work_dates[j]
    /\ (IsTick /\ off_work_due(event.cfg, event.now)) =>
           \E i \in 1..Len(off_work_dates) : off_work_dates[i] = DateOf(event.now)

\* the popup fired on two dates, and this pass, again in the window, did not
C3_Witness ==
    /\ IsTick /\ off_work_due(event.cfg, event.now) /\ ~event.off_work
    /\ Len(off_work_dates) = 2

\* C4: every stand-up the loop fires is fired by a pass on a day in workdays,
\* at a clock time in some work period and in no block period.
C4_FiresOnlyWhenEffective ==
    (IsTick /\ event.standup) => TickWasEffective

C4_Witness ==
    IsTick /\ event.standup /\ WeekdayOf(event.now) = 1

\* C5: the matcher is true of a sequence of windows and a clock time t iff
\* some window contains t: start <= t <= end when start <= end, and t >= start
\* or t <= end when start > end; for the empty sequence it is false.
C5_WindowMatcher ==
    event.op = "match" =>
        /\ event.result <=> InSomeWindow(event.periods, event.t)
        /\ event.periods = << >> => ~event.result

\* the second window crosses midnight and contains t; the first does not
C5_Witness ==
    /\ event.op = "match" /\ event.result
    /\ Len(event.periods) = 2
    /\ ~WindowContains(event.periods[1], event.t)
    /\ Val(parse_time(event.periods[2].start)) > Val(parse_time(event.periods[2].end))
    /\ event.t <= Val(parse_time(event.periods[2].end))

\* the date of the first day after today that is in workdays
NextAllowedDate(cfg, now) ==
    LET Allowed(d) == ((DateOf(now) + d) % DaysPerWeek) + 1 \in cfg.workdays
    IN  DateOf(now) + (CHOOSE d \in 1..DaysPerWeek :
                           Allowed(d) /\ \A e \in 1..(d - 1) : ~Allowed(e))

\* the earliest start among the work periods
EarliestWorkStart(cfg) ==
    MinOfSet({ Val(parse_time(cfg.work_periods[i].start)) :
                 i \in { j \in 1..Len(cfg.work_periods) :
                           ~IsNone(parse_time(cfg.work_periods[j].start)) } })

\* C6: after a pass on a day that is not in workdays, next_reminder is the
\* work-period start on the next day that is in workdays (Saturday 10:00 with
\* workdays Monday..Friday and 09:00-18:00 gives the next Monday 09:00).
C6_NonWorkdayNextIsWorkStart ==
    (IsTick /\ WeekdayOf(event.now) \notin event.cfg.workdays) =>
        next_reminder = Some(Combine(NextAllowedDate(event.cfg, event.now),
                                     EarliestWorkStart(event.cfg)))

\* C7: after a pass on a workday, in a work period and in a block period that
\* ends later the same day, no stand-up was fired and next_reminder is that
\* day's end of the block period.
C7_BlockedNextIsBlockEnd ==
    (/\ IsTick
     /\ WeekdayOf(event.now) \in event.cfg.workdays
     /\ InSomeWindow(event.cfg.work_periods, TimeOf(event.now))) =>
        \A j \in 1..Len(event.cfg.block_periods) :
            LET w == event.cfg.block_periods[j]
            IN  (/\ WindowContains(w, TimeOf(event.now))
                 /\ Val(parse_time(w.end)) > TimeOf(event.now)) =>
                    /\ ~event.standup
                    /\ next_reminder =
                           Some(Combine(DateOf(event.now), Val(parse_time(w.end))))

\* C8: once the editor has saved a validated config, the config a pass loads
\* from the file equals the config that was saved, field for field.
C8_SaveLoadRoundTrip ==
    (IsTick /\ ~IsNone(saved)) => config = Val(saved)

\* the fields of a config that a pass of the loop reads
TickFields(cfg) == [k \in DOMAIN cfg \ {"auto_start"} |-> cfg[k]]

\* C9: a pass whose load fails decides with the config of the last load that
\* succeeded, and with the defaults only when no load has succeeded.
C9_LastKnownGood ==
    (IsTick /\ ~Loadable(file)) =>
        TickFields(event.cfg) =
            TickFields(IF IsNone(loaded) THEN default_config ELSE Val(loaded))

\* C10: an attempt to save that fails validation changes nothing: the file,
\* self.config, last_reminder_time, the autostart value and self.running stay
\* as they were, so the service is not started.
C10_RejectedChangesNothing ==
    [][event'.op = "rejected" =>
           UNCHANGED << file, config, last_reminder_time, registry, running >>]_vars

\* rejected while the service runs and a last_reminder_time is set
C10_Witness ==
    event.op = "rejected" /\ running /\ ~IsNone(last_reminder_time)

\* every window of the sequence has a start and an end that parse_time accepts
WindowsParse(ws) ==
    \A i \in 1..Len(ws) :
        ~IsNone(parse_time(ws[i].start)) /\ ~IsNone(parse_time(ws[i].end))

\* the Config invariant: a work period, a workday, a positive interval, and
\* texts that all parse as HH:MM
ConfigInvariant(cfg) ==
    /\ cfg.work_periods # << >>
    /\ cfg.workdays # {}
    /\ cfg.workdays \subseteq 1..DaysPerWeek
    /\ cfg.interval_minutes \in Nat \ {0}
    /\ WindowsParse(cfg.work_periods)
    /\ WindowsParse(cfg.block_periods)
    /\ ~IsNone(parse_time(cfg.off_work_time))

\* C11: every config the editor writes to the file satisfies the Config
\* invariant (a work period, a workday, a positive whole interval, window and
\* off-work texts that parse), and so does every config a pass of the loop
\* reads once the editor has begun a save.
C11_EditorPersistsValidConfig ==
    /\ ~IsNone(writing) => ConfigInvariant(Val(writing))
    /\ ~IsNone(saved) => ConfigInvariant(Val(saved))
    /\ (IsTick /\ saves > 0) => ConfigInvariant(event.cfg)

\* a pass has read the config the editor saved, with a row the editor skipped
C11_Witness ==
    /\ IsTick /\ ~IsNone(saved)
    /\ TickFields(event.cfg) = TickFields(Val(saved))
    /\ Val(saved).interval_minutes = 1
    /\ Val(saved).workdays = 1..DaysPerWeek

\* the windows of the sequence whose start and end both parse
WellFormedWindows(ws) ==
    SelectSeq(ws, LAMBDA w : ~IsNone(parse_time(w.start))
                             /\ ~IsNone(parse_time(w.end)))

\* the config without its malformed windows
WellFormedOnly(cfg) ==
    [cfg EXCEPT !.work_periods = WellFormedWindows(cfg.work_periods),
                !.block_periods = WellFormedWindows(cfg.block_periods)]

HasMalformedWindow(cfg) == WellFormedOnly(cfg) # cfg

\* C12: a pass on a config with malformed windows completes, and decides as
\* on the config without them: it fires a stand-up exactly when the
\* well-formed windows say so, and the next-occurrence candidates of the
\* well-formed windows are among the candidates of next_reminder (a malformed
\* window adds at most the candidate of its text that does parse).
C12_MalformedWindowSkipped ==
    (/\ IsTick
     /\ HasMalformedWindow(event.cfg)
     /\ WellFormedOnly(event.cfg).work_periods # << >>) =>
        LET wf == WellFormedOnly(event.cfg)
            now == event.now
        IN  /\ effective(event.cfg, now) <=> effective(wf, now)
            /\ event.standup <=>
                   standup_fires(wf, event.first, event.last, now)
            /\ ~IsNone(next_reminder)
            /\ IF effective(wf, now)
               THEN Val(next_reminder) =
                        next_reminder_after(wf, event.first, event.last, now)
               ELSE next_times(wf, now) # {} =>
                        /\ Val(next_reminder) <= MinOfSet(next_times(wf, now))
                        /\ Val(next_reminder) \in
                               next_times(wf, now) \cup next_times(event.cfg, now)

\* C15: stopping the service and starting the program again causes no
\* duplicate: the first pass of the new run fires no stand-up, and no pass of
\* the new run fires the off-work popup on a date on which an earlier run
\* has fired it.
C15_NoDuplicateAfterRestart ==
    (IsTick /\ restarts > 0) =>
        /\ event.n = 1 => ~event.standup
        /\ event.off_work => DateOf(event.now) \notin earlier_off_work_dates

\* C13: an exception raised inside a pass (last_reminder_time cleared by a
\* save between the test for None and the subtraction) is caught by the
\* except clause of the loop: the thread goes to the recovery pause, from the
\* pause only to the head of the loop, and from the head, while self.running
\* is set, only into another pass; it never ends because of the exception.
C13_ExceptionCaught ==
    [][\A t \in Loops :
          /\ (t \notin raised /\ t \in raised') => loop'[t].pc = "recovering"
          /\ loop[t].pc = "recovering" => loop'[t].pc \in { "recovering", "head" }
          /\ (loop[t].pc = "head" /\ running /\ loop'[t].pc # "head") =>
                 loop'[t].pc = "pass"]_vars

\* thread 1 has raised and is in a pass again, the flag still set
C13_Witness ==
    1 \in raised /\ loop[1].pc = "pass" /\ running /\ alive

\* C14: once self.running is False the loop shows no further popup, and it
\* is at a point from which it reaches a test of the flag within a second
\* (it is not in the 60 s pause of the except clause).
C14_StopsPromptly ==
    /\ ~fired_after_stop
    /\ ~running => \A t \in Loops : loop[t].pc # "recovering"

\* C16: at most one reminder thread is in its loop at any time.
C16_SingleLoop ==
    Cardinality({ t \in Loops : InLoop(t) }) <= 1

\* C17: a pass that loads the config while the editor is writing the file
\* decides with the config the file held before the save or with the config
\* being saved, whole, and not with anything else (the defaults when the file
\* held none before the save).
C17_ReloadSeesWholeConfig ==
    (IsTick /\ editor = "writing") =>
        \/ TickFields(event.cfg) = TickFields(Val(writing))
        \/ TickFields(event.cfg) = TickFields(load_config(Val(stored_before)))

\* C18: the first pass after the editor has completed a save while the
\* service runs fires a stand-up, and sets next_reminder, as the saved config
\* says.
C18_SavedConfigTakesEffect ==
    [][(event.op = "save_end" /\ ~event.started /\ event'.op = "tick") =>
          /\ event'.standup <=>
                 standup_fires(Val(saved), event'.first, event'.last, event'.now)
          /\ next_reminder' =
                 Some(next_reminder_after(Val(saved), event'.first,
                                          event'.last, event'.now))]_vars

\* the pass came while a stand-up popup was waiting, last_reminder_time was
\* still what the stand-up before had set, and the interval had elapsed
UnansweredAndDue ==
    /\ IsTick
    /\ event.pending > 0
    /\ ~IsNone(event.prev_fire)
    /\ event.last = event.prev_fire
    /\ ~event.first
    /\ TickWasEffective
    /\ event.now >= Val(event.prev_fire) + IntervalSeconds(event.cfg)

\* C19: a popup that waits for its answer does not hold up the loop: passes
\* are taken while it waits, and such a pass, in the effective condition and
\* one interval or more after the stand-up before, fires the next stand-up
\* though the popup was never answered.
C19_PopupDoesNotBlock ==
    UnansweredAndDue => event.standup

C19_Witness ==
    UnansweredAndDue /\ event.standup /\ standup_popups > 0

\* the pass came when the interval since last_reminder_time = T had elapsed,
\* in the effective condition
DueAt ==
    /\ IsTick
    /\ TickWasEffective
    /\ ~event.first
    /\ ~IsNone(event.last)
    /\ event.now >= Val(event.last) + IntervalSeconds(event.cfg)

\* ... and the pass before, a minute earlier and not before T, was in the
\* effective condition too, with the same interval
DueAfterSteadyPass ==
    /\ DueAt
    /\ ~IsNone(event.prev)
    /\ event.delta = SecondsPerMinute
    /\ Val(event.prev).effective
    /\ Val(event.prev).interval = event.cfg.interval_minutes
    /\ Val(event.last) <= event.now - event.delta

Lateness == event.now - (Val(event.last) + IntervalSeconds(event.cfg))

OffWorkReminderAt(cfg, now) ==
    Combine(DateOf(now), Val(parse_time(cfg.off_work_time)))
        - OffWorkLeadMinutes * SecondsPerMinute

\* the pass and the pass before it, of the same run and on the same workday,
\* lie on the two sides of the window of 30 s around the off-work reminder time
\* (enabled, off_work_time parses): no pass has looked at the clock inside it
OffWorkWindowSkipped ==
    /\ IsTick
    /\ ~IsNone(event.prev)
    /\ is_workday(event.cfg, event.now)
    /\ event.cfg.off_work_reminder_enabled
    /\ ~IsNone(parse_time(event.cfg.off_work_time))
    /\ DateOf(event.now - event.delta) = DateOf(event.now)
    /\ LET at == OffWorkReminderAt(event.cfg, event.now)
       IN  /\ event.now - event.delta < at - OffWorkToleranceSeconds
           /\ event.now > at + OffWorkToleranceSeconds

\* C21: while the service runs, no two consecutive passes of the loop step
\* over the off-work window of a workday, so a pass looks at the clock inside
\* the window and the off-work popup is shown on that date.
C21_OffWorkNotMissed ==
    /\ ~OffWorkWindowSkipped
    /\ (/\ IsTick
        /\ ~IsNone(event.prev)
        /\ is_workday(event.cfg, event.now)
        /\ event.cfg.off_work_reminder_enabled
        /\ ~IsNone(parse_time(event.cfg.off_work_time))
        /\ DateOf(event.now - event.delta) = DateOf(event.now)
        /\ event.now - event.delta
               < OffWorkReminderAt(event.cfg, event.now) - OffWorkToleranceSeconds
        /\ event.now >= OffWorkReminderAt(event.cfg, event.now)
                            - OffWorkToleranceSeconds) =>
           \E i \in 1..Len(off_work_dates) : off_work_dates[i] = DateOf(event.now)

\* C22 as claimed: the first pass after the service starts, wherever it
\* falls, sets last_reminder_time to its time and clears is_first_start, so
\* is_first_start is False after every pass.
C22_FirstTickClearsFlag ==
    IsTick =>
        /\ ~is_first_start
        /\ event.n = 1 => last_reminder_time = Some(event.now)

\* C22 amended: is_first_start is cleared, and last_reminder_time set to the
\* time of the pass, by the first pass that is on a workday, in a work period
\* and in no block period, and that pass fires no stand-up; a pass outside
\* that condition leaves is_first_start and last_reminder_time as they were.
C22_FirstEffectiveTickClearsFlag ==
    IsTick =>
        /\ is_first_start = (event.first /\ ~TickWasEffective)
        /\ (event.first /\ TickWasEffective) =>
               last_reminder_time = Some(event.now) /\ ~event.standup
        /\ ~TickWasEffective => last_reminder_time = event.last

\* the service was started before the work period: its first pass left
\* is_first_start set, and the second, the first in the work period, fired no
\* stand-up and cleared it
C22_Witness ==
    /\ IsTick /\ event.n = 2
    /\ event.first /\ TickWasEffective
    /\ ~event.standup /\ ~is_first_start
    /\ last_reminder_time = Some(event.now)

\* the weekday of the pass is in workdays, the off-work reminder is enabled,
\* off_work_time parses, and the pass is within 30 s of today's off_work_time
\* minus 10 minutes
InOffWorkWindow ==
    /\ WeekdayOf(event.now) \in event.cfg.workdays
    /\ event.cfg.off_work_reminder_enabled
    /\ ~IsNone(parse_time(event.cfg.off_work_time))
    /\ event.now - OffWorkReminderAt(event.cfg, event.now)
           \in (0 - OffWorkToleranceSeconds)..OffWorkToleranceSeconds

\* C23: a pass shows the off-work popup only on a day in workdays, with the
\* reminder enabled, an off_work_time that parses and within 30 s of today's
\* off_work_time minus 10 minutes; and under these conditions it shows it
\* whenever none was shown on that date, whatever the work periods, the block
\* periods and is_first_start are.
C23_OffWorkOnlyInWindow ==
    IsTick =>
        (event.off_work <=>
            (InOffWorkWindow /\ event.last_off # Some(DateOf(event.now))))

\* the off-work popup was shown by a pass outside the work periods or in a
\* block period, with is_first_start still set
C23_Witness ==
    /\ IsTick /\ event.off_work
    /\ ~TickWasEffective
    /\ event.first /\ is_first_start

\* the work-period starts among the candidates of next_reminder
WorkStartCandidates(cfg, now) ==
    work_start_times(cfg, now) \cup next_workday_times(cfg, now)

\* C24: after a pass outside the work periods or in a block period, every
\* work-period start among the candidates of next_reminder is on a day in
\* workdays (a start already passed today rolls to the next day in workdays,
\* not to tomorrow), so a next_reminder that is such a start is on a workday.
C24_WorkStartOnWorkday ==
    (IsTick /\ ~TickWasEffective) =>
        /\ \A c \in WorkStartCandidates(event.cfg, event.now) :
               WeekdayOf(c) \in event.cfg.workdays
        /\ Val(next_reminder) \in WorkStartCandidates(event.cfg, event.now) =>
               WeekdayOf(Val(next_reminder)) \in event.cfg.workdays

\* the first datetime at or after now with the clock time tod on a day in workdays
NextAllowedOccurrence(cfg, now, tod) ==
    LET Fits(d) == /\ ((DateOf(now) + d) % DaysPerWeek) + 1 \in cfg.workdays
                   /\ Combine(DateOf(now) + d, tod) >= now
        d == CHOOSE d \in 0..DaysPerWeek :
                 Fits(d) /\ \A e \in 0..(d - 1) : ~Fits(e)
    IN  Combine(DateOf(now) + d, tod)

\* the pass was on a workday at a clock time in some work period
TickWasInWorkPeriod ==
    /\ WeekdayOf(event.now) \in event.cfg.workdays
    /\ InSomeWindow(event.cfg.work_periods, TimeOf(event.now))

\* C25: after a pass outside the work periods, on a config whose windows are
\* all well-formed, next_reminder is not later than the next occurrence, on a
\* day in workdays, of the start of any work period, whatever the order of
\* work_periods and whether or not today is in workdays.
C25_EarliestWorkStart ==
    (IsTick /\ ~TickWasInWorkPeriod /\ ~HasMalformedWindow(event.cfg)) =>
        \A i \in 1..Len(event.cfg.work_periods) :
            Val(next_reminder) <=
                NextAllowedOccurrence(event.cfg, event.now,
                    Val(parse_time(event.cfg.work_periods[i].start)))

\* the interval since the last_reminder_time the pass found had elapsed, or
\* there was none
TickWasDue ==
    IF IsNone(event.last) THEN TRUE
    ELSE event.now - Val(event.last) >= IntervalSeconds(event.cfg)

\* C26: next_reminder does not gate the decisions of a pass: the popups it
\* shows and the values it leaves in last_reminder_time, is_first_start and
\* last_off_work_reminder_date are functions of the config it loaded, its
\* time, and the values of these three fields before it; the next_reminder
\* it found (event.next) takes no part, so two passes that differ in it alone
\* decide alike.
C26_NextReminderDoesNotGate ==
    IsTick =>
        /\ event.standup <=> (TickWasEffective /\ ~event.first /\ TickWasDue)
        /\ event.off_work <=>
               (InOffWorkWindow /\ event.last_off # Some(DateOf(event.now)))
        /\ is_first_start = (event.first /\ ~TickWasEffective)
        /\ last_reminder_time =
               IF TickWasEffective /\ (event.first \/ TickWasDue)
               THEN Some(event.now) ELSE event.last
        /\ last_off_work_reminder_date =
               IF InOffWorkWindow THEN Some(DateOf(event.now))
               ELSE IF ~IsNone(event.last_off)
                       /\ Val(event.last_off) < DateOf(event.now)
                    THEN None ELSE event.last_off

\* a stand-up was fired by a pass that came before the next_reminder the
\* pass before had set
C26_Witness ==
    /\ IsTick /\ event.standup
    /\ ~IsNone(event.next)
    /\ event.now < Val(event.next)

\* the pass found a last_reminder_time later than the stand-up the loop fired
\* last: a yes to the popup, at that later time
AnsweredAfterFire ==
    /\ IsTick /\ TickWasEffective /\ ~event.first
    /\ ~IsNone(event.prev_fire) /\ ~IsNone(event.last)
    /\ Val(event.last) > Val(event.prev_fire)

\* C27: a yes to a stand-up popup at time A sets last_reminder_time to A, a no
\* and the confirmation of an off-work popup leave it as it was; and a pass
\* that finds the A of a yes fires the next stand-up exactly when
\* A + interval_minutes is reached, not when the time of the firing plus
\* interval_minutes is.
C27_YesResetsLastReminder ==
    /\ event.op = "answer" =>
           last_reminder_time = IF event.yes THEN Some(event.now) ELSE event.last
    /\ event.op = "answer_off_work" => last_reminder_time = event.last
    /\ AnsweredAfterFire =>
           (event.standup <=>
               event.now >= Val(event.last) + IntervalSeconds(event.cfg))

\* the pass came an interval after the stand-up fired last, though not yet an
\* interval after the yes, and fired nothing
C27_Witness ==
    /\ AnsweredAfterFire
    /\ event.now >= Val(event.prev_fire) + IntervalSeconds(event.cfg)
    /\ event.now < Val(event.last) + IntervalSeconds(event.cfg)
    /\ ~event.standup

\* C28: after every pass next_reminder is set and is later than the time of
\* the pass, whichever branch the pass took (first pass, stand-up fired,
\* interval not elapsed, outside the work periods or in a block period), so
\* the countdown of the tray icon, taken at the time of the pass, is positive.
C28_NextReminderInFuture ==
    IsTick =>
        /\ ~IsNone(next_reminder)
        /\ Val(next_reminder) > event.now

\* the branch that comes closest: the interval since a yes had not elapsed
\* and less than a minute was left of it
C28_Witness ==
    /\ IsTick /\ TickWasEffective
    /\ ~event.first /\ ~event.standup
    /\ ~IsNone(next_reminder)
    /\ Val(next_reminder) - event.now \in 1..(SecondsPerMinute - 1)

=============================================================================
